---- MODULE Spec2Model ----
(***************************************************************************)
(* Aggregated VRF signature chain of                                       *)
(* experimentations/vrf/biscuit-vrf/src/second.rs.                         *)
(*                                                                         *)
(* The Ristretto group is a cyclic group of prime order generated by the   *)
(* base point, so a point is represented by its discrete logarithm.        *)
(* Scalars are polynomials with integer coefficients over indeterminates:  *)
(* one per random private scalar and one per output of a hash or of the    *)
(* nonce derivation (an output is identified by the input it was computed  *)
(* from, so the hashes are deterministic and collision free, and two       *)
(* scalars are equal exactly when they are equal as polynomials).          *)
(***************************************************************************)
EXTENDS Integers, Sequences, FiniteSets, Bags, TLC

\* Longest chain of links the model builds.
MaxLen == 3
\* Number of direct writes to a token's stored links in one behaviour.
MaxTamper == 1
\* Number of pushes and pops on a token's keys and messages in one behaviour.
MaxEdit == 2

\* Identifiers of the key pairs drawn from the random generator.
KeyIds == {1, 2}
\* Message byte strings.
Messages == {"hello", "you"}

-----------------------------------------------------------------------------
(* Scalar arithmetic (curve25519_dalek::scalar::Scalar).  A scalar is a     *)
(* function from monomials (bags of indeterminates) to non-zero integer     *)
(* coefficients; the zero scalar is the empty function.                     *)

RECURSIVE SumCoef(_, _, _)
SumCoef(S, p, q) ==
  IF S = {} THEN 0
  ELSE LET e == CHOOSE x \in S : TRUE
       IN p[e[1]] * q[e[2]] + SumCoef(S \ {e}, p, q)

ScalarZero == <<>>

ScalarOne == (EmptyBag :> 1)

ScalarAtom(a) == (SetToBag({a}) :> 1)

\* Scalar + Scalar, with Scalar::reduce: the result is kept canonical.
ScalarAdd(p, q) ==
  LET co(m) == (IF m \in DOMAIN p THEN p[m] ELSE 0)
               + (IF m \in DOMAIN q THEN q[m] ELSE 0)
      nz == {m \in (DOMAIN p) \cup (DOMAIN q) : co(m) # 0}
  IN [m \in nz |-> co(m)]

\* Scalar::neg
ScalarNeg(p) == [m \in DOMAIN p |-> 0 - p[m]]

\* Scalar * Scalar
ScalarMul(p, q) ==
  LET pairs == (DOMAIN p) \X (DOMAIN q)
      mons == {e[1] \oplus e[2] : e \in pairs}
      co(m) == SumCoef({e \in pairs : e[1] \oplus e[2] = m}, p, q)
      nz == {m \in mons : co(m) # 0}
  IN [m \in nz |-> co(m)]

-----------------------------------------------------------------------------
(* Points (curve25519_dalek::ristretto::RistrettoPoint), each held as its   *)
(* discrete logarithm to the base point.                                    *)

Point(d) == [dlog |-> d]

\* RistrettoPoint::identity()
Identity == Point(ScalarZero)

RISTRETTO_BASEPOINT_POINT == Point(ScalarOne)

\* RistrettoPoint + RistrettoPoint
PointAdd(a, b) == Point(ScalarAdd(a.dlog, b.dlog))

\* Scalar * RistrettoPoint
PointMul(s, a) == Point(ScalarMul(s, a.dlog))

\* super::add_points: the sum of a slice of points, the identity when empty.
RECURSIVE add_points(_)
add_points(points) ==
  IF points = <<>> THEN Identity
  ELSE PointAdd(Head(points), add_points(Tail(points)))

\* super::ECVRF_hash_to_curve: a point of unknown discrete logarithm,
\* determined by the public key and the message.
ECVRF_hash_to_curve(pk, message) ==
  Point(ScalarAtom([hpk |-> pk, hmsg |-> message]))

\* super::ECVRF_hash_points: the Fiat-Shamir challenge of an ordered list
\* of points.
ECVRF_hash_points(points) == ScalarAtom([points |-> points])

\* super::ECVRF_nonce: deterministic in the private scalar and the point.
ECVRF_nonce(private, h) == ScalarAtom([nsk |-> private, nh |-> h])

-----------------------------------------------------------------------------
\* KeyPair::new: the id-th private scalar drawn from the generator.
KeyPair(id) ==
  LET private == ScalarAtom([priv |-> id])
  IN [private |-> private,
      public |-> PointMul(private, RISTRETTO_BASEPOINT_POINT)]

Min(a, b) == IF a < b THEN a ELSE b

\* iter().zip(): as long as the shorter of the two slices
ZipLen(a, b) == Min(Len(a), Len(b))

\* public_keys.iter().zip(c.iter()).map(|(p, c)| p * c.neg())
NegChallengeKeys(public_keys, c) ==
  [i \in 1..ZipLen(public_keys, c) |-> PointMul(ScalarNeg(c[i]), public_keys[i])]

\* messages.iter().zip(public_keys.iter()).map(|(m, pk)| hash_to_curve(*pk, m))
LinkHashes(public_keys, messages) ==
  [i \in 1..ZipLen(messages, public_keys) |->
     ECVRF_hash_to_curve(public_keys[i], messages[i])]

\* new with gamma_agg = c * gamma, the negation left out
TokenSignature_new_posGamma(keypair, message) ==
  LET h == ECVRF_hash_to_curve(keypair.public, message)
      gamma == PointMul(keypair.private, h)
      k == ECVRF_nonce(keypair.private, h)
      c == ECVRF_hash_points(<<h, keypair.public,
                               PointMul(k, RISTRETTO_BASEPOINT_POINT),
                               PointMul(k, h)>>)
      s == ScalarAdd(k, ScalarMul(c, keypair.private))
  IN [gamma_agg |-> PointMul(c, gamma), c |-> <<c>>, w |-> Identity, s |-> s]

TokenSignature_new(keypair, message) ==
  LET h == ECVRF_hash_to_curve(keypair.public, message)
      gamma == PointMul(keypair.private, h)
      k == ECVRF_nonce(keypair.private, h)
      c == ECVRF_hash_points(<<h, keypair.public,
                               PointMul(k, RISTRETTO_BASEPOINT_POINT),
                               PointMul(k, h)>>)
      s == ScalarAdd(k, ScalarMul(c, keypair.private))
      w == Identity
  IN [gamma_agg |-> PointMul(ScalarNeg(c), gamma), c |-> <<c>>, w |-> w, s |-> s]

\* TokenSignature::sign, statement by statement.
Sign(self, public_keys, messages, keypair, message) ==
  LET h == ECVRF_hash_to_curve(keypair.public, message)
      gamma == PointMul(keypair.private, h)
      k == ECVRF_nonce(keypair.private, h)
      pc == NegChallengeKeys(public_keys, self.c)
      u == PointAdd(PointAdd(add_points(pc),
                             PointMul(self.s, RISTRETTO_BASEPOINT_POINT)),
                    PointMul(k, RISTRETTO_BASEPOINT_POINT))
      hashes == LinkHashes(public_keys, messages)
      hashes_sum == add_points(hashes)
      v == PointAdd(PointAdd(PointAdd(self.w, self.gamma_agg),
                             PointMul(self.s, hashes_sum)),
                    PointMul(k, h))
      p == add_points(public_keys)
      c == ECVRF_hash_points(<<h, PointAdd(p, keypair.public), u, v>>)
      s == ScalarAdd(k, ScalarMul(c, keypair.private))
      agg_s == ScalarAdd(self.s, s)
      hs == PointMul(ScalarNeg(s), hashes_sum)
      w == PointAdd(PointAdd(self.w, hs), PointMul(ScalarNeg(self.s), h))
  IN [gamma_agg |-> PointAdd(self.gamma_agg, PointMul(ScalarNeg(c), gamma)),
      c |-> Append(self.c, c),
      w |-> w,
      s |-> agg_s]

\* sign with "+ h * self.s.neg()" left out of w
TokenSignature_sign_dropW(self, public_keys, messages, keypair, message) ==
  LET res == Sign(self, public_keys, messages, keypair, message)
      h == ECVRF_hash_to_curve(keypair.public, message)
  IN [res EXCEPT !.w = PointAdd(res.w, PointMul(self.s, h))]

\* sign with res.c.push(c) left out
TokenSignature_sign_dropPush(self, public_keys, messages, keypair, message) ==
  [Sign(self, public_keys, messages, keypair, message) EXCEPT !.c = self.c]

\* sign returning s instead of agg_s
TokenSignature_sign_dropAgg(self, public_keys, messages, keypair, message) ==
  LET res == Sign(self, public_keys, messages, keypair, message)
  IN [res EXCEPT !.s = ScalarAdd(res.s, ScalarNeg(self.s))]

TokenSignature_sign(self, public_keys, messages, keypair, message) ==
  Sign(self, public_keys, messages, keypair, message)

\* u of TokenSignature::verify
VerifyU(self, public_keys) ==
  PointAdd(add_points(NegChallengeKeys(public_keys, self.c)),
           PointMul(self.s, RISTRETTO_BASEPOINT_POINT))

\* v of TokenSignature::verify
VerifyV(self, public_keys, messages) ==
  PointAdd(PointAdd(self.w, self.gamma_agg),
           PointMul(self.s, add_points(LinkHashes(public_keys, messages))))

\* The part of TokenSignature::verify after the length check.  unwrap() of
\* last() on an empty sequence panics.
VerifyChallenge(self, public_keys, messages) ==
  LET hashes == LinkHashes(public_keys, messages)
      u == VerifyU(self, public_keys)
      v == VerifyV(self, public_keys, messages)
      p == add_points(public_keys)
  IN IF hashes = <<>> \/ self.c = <<>> THEN "panic"
     ELSE IF ECVRF_hash_points(<<hashes[Len(hashes)], p, u, v>>)
             = self.c[Len(self.c)]
          THEN "true" ELSE "false"

\* verify whose length check leaves the number of challenges out
TokenSignature_verify_keysOnly(self, public_keys, messages) ==
  IF ~(Len(public_keys) = Len(messages))
  THEN "false"
  ELSE VerifyChallenge(self, public_keys, messages)

\* verify that recomputes the challenge and does not compare it
TokenSignature_verify_noCompare(self, public_keys, messages) ==
  IF ~(Len(public_keys) = Len(messages) /\ Len(public_keys) = Len(self.c))
  THEN "false"
  ELSE IF public_keys = <<>> THEN "panic" ELSE "true"

\* TokenSignature::verify: "true", "false", or "panic".
TokenSignature_verify(self, public_keys, messages) ==
  IF ~(Len(public_keys) = Len(messages) /\ Len(public_keys) = Len(self.c))
  THEN "false"
  ELSE VerifyChallenge(self, public_keys, messages)

Token_new(keypair, message) ==
  [messages |-> <<message>>,
   keys |-> <<keypair.public>>,
   signature |-> TokenSignature_new(keypair, message)]

\* append with the new message and key inserted at the front
Token_append_pushFront(self, keypair, message) ==
  [messages |-> <<message>> \o self.messages,
   keys |-> <<keypair.public>> \o self.keys,
   signature |-> TokenSignature_sign(self.signature, self.keys, self.messages,
                                     keypair, message)]

Token_append(self, keypair, message) ==
  [messages |-> Append(self.messages, message),
   keys |-> Append(self.keys, keypair.public),
   signature |-> TokenSignature_sign(self.signature, self.keys, self.messages,
                                     keypair, message)]

Token_verify(self) ==
  TokenSignature_verify(self.signature, self.keys, self.messages)

-----------------------------------------------------------------------------
(* The callers of the library, as in tests::three_messages and              *)
(* tests::change_message: a token is created, extended by append, and its   *)
(* public fields messages and keys are written directly.                    *)

VARIABLES
  tok,      \* the token at hand
  prior,    \* the token the last append was called on
  other,    \* a second token appended to prior
  hist,     \* per link, the key pair and message given to new or append
  taint,    \* 0: every append so far was called on a token as signed;
            \* 1: appended to a token with one message or key replaced;
            \* 2: appended to a token changed in another way
  ntamper,  \* number of direct writes to the token's fields so far
  op        \* the last operation and its arguments

vars == <<tok, prior, other, hist, taint, ntamper, op>>

Op(name, kp, msg) == [name |-> name, kp |-> kp, msg |-> msg]

Links(t) == [i \in 1..Len(t.keys) |-> <<t.messages[i], t.keys[i]>>]

SignedLinks == [i \in 1..Len(hist) |-> <<hist[i].msg, KeyPair(hist[i].kp).public>>]

\* positions whose stored message / key is not the one signed there
ChangedMessages == {i \in 1..Len(hist) : tok.messages[i] # hist[i].msg}

ChangedKeys == {i \in 1..Len(hist) : tok.keys[i] # KeyPair(hist[i].kp).public}

AsSigned == ChangedMessages = {} /\ ChangedKeys = {}

\* exactly one stored message, or exactly one stored key, is replaced
OneReplaced ==
  \/ Cardinality(ChangedMessages) = 1 /\ ChangedKeys = {}
  \/ ChangedMessages = {} /\ Cardinality(ChangedKeys) = 1

LengthsMatch(t) ==
  Len(t.keys) = Len(t.messages) /\ Len(t.keys) = Len(t.signature.c)

Init ==
  \E kp \in KeyIds, m \in Messages :
    /\ tok = Token_new(KeyPair(kp), m)
    /\ prior = tok
    /\ other = tok
    /\ hist = <<[kp |-> kp, msg |-> m]>>
    /\ taint = 0
    /\ ntamper = 0
    /\ op = Op("new", kp, m)

\* let tokenN = token.append(&keypair, &message)
AppendLink(kp, m) ==
  /\ Len(tok.signature.c) < MaxLen
  /\ tok' = Token_append(tok, KeyPair(kp), m)
  /\ prior' = tok
  /\ hist' = Append(hist, [kp |-> kp, msg |-> m])
  /\ taint' = IF taint # 0 THEN taint
              ELSE IF AsSigned THEN 0
              ELSE IF OneReplaced /\ Len(tok.keys) >= 2
                      /\ Token_verify(tok) = "false" THEN 1
              ELSE 2
  /\ op' = Op("append", kp, m)
  /\ UNCHANGED <<other, ntamper>>

\* token.messages[i] = message
SetMessage(i, m) ==
  /\ ntamper < MaxTamper
  /\ i \in 1..Len(tok.messages)
  /\ tok.messages[i] # m
  /\ tok' = [tok EXCEPT !.messages[i] = m]
  /\ ntamper' = ntamper + 1
  /\ taint' = IF taint = 1 THEN 2 ELSE taint
  /\ op' = Op("set_message", 0, m)
  /\ UNCHANGED <<prior, other, hist>>

\* token.keys[i] = public key
SetKey(i, kp) ==
  /\ ntamper < MaxTamper
  /\ i \in 1..Len(tok.keys)
  /\ tok.keys[i] # KeyPair(kp).public
  /\ tok' = [tok EXCEPT !.keys[i] = KeyPair(kp).public]
  /\ ntamper' = ntamper + 1
  /\ taint' = IF taint = 1 THEN 2 ELSE taint
  /\ op' = Op("set_key", kp, "")
  /\ UNCHANGED <<prior, other, hist>>

\* token.messages.swap(i, j); token.keys.swap(i, j)
SwapLinks(i, j) ==
  /\ ntamper < MaxTamper
  /\ i \in 1..Len(tok.keys) /\ j \in 1..Len(tok.keys) /\ i < j
  /\ Links(tok)[i] # Links(tok)[j]
  /\ tok' = [tok EXCEPT !.messages[i] = tok.messages[j],
                        !.messages[j] = tok.messages[i],
                        !.keys[i] = tok.keys[j],
                        !.keys[j] = tok.keys[i]]
  /\ ntamper' = ntamper + 1
  /\ taint' = IF taint = 1 THEN 2 ELSE taint
  /\ op' = Op("swap", 0, "")
  /\ UNCHANGED <<prior, other, hist>>

Next ==
  \/ \E kp \in KeyIds, m \in Messages : AppendLink(kp, m)
  \/ \E i \in 1..MaxLen, m \in Messages : SetMessage(i, m)
  \/ \E i \in 1..MaxLen, kp \in KeyIds : SetKey(i, kp)
  \/ \E i \in 1..MaxLen, j \in 1..MaxLen : SwapLinks(i, j)

Spec == Init /\ [][Next]_vars

-----------------------------------------------------------------------------
(* Properties of the chain, checked under Spec.                             *)

\* C1: a token built by Token::new and Token::append alone, from any key
\* pairs and messages, verifies, at every length from 1 on.
C1_AppendVerifyRoundtrip ==
  ntamper = 0 => Token_verify(tok) = "true" /\ Token_verify(prior) = "true"

\* a three-link token of non-distinct key pairs that verifies
C1_Witness ==
  /\ ntamper = 0
  /\ Len(tok.keys) = 3
  /\ hist[1].kp = hist[3].kp
  /\ Token_verify(tok) = "true"

\* C2: a token of at least two links, signed as stored, in which exactly
\* one stored message or one stored key is then replaced by a different
\* one (signature untouched) does not verify.
C2_TamperDetected ==
  (taint = 0 /\ OneReplaced /\ Len(tok.keys) >= 2) => Token_verify(tok) = "false"

\* the message of a middle link replaced
C2_Witness ==
  /\ taint = 0
  /\ Len(tok.keys) = 3
  /\ ChangedMessages = {2}
  /\ ChangedKeys = {}
  /\ Token_verify(tok) = "false"

\* C3: a token appended (once or more) to a token of at least two links
\* that had one message or key replaced and did not verify, does not
\* verify either.
C3_TamperSurvivesExtension ==
  taint = 1 => Token_verify(tok) = "false"

\* C4: a token that verifies holds, at every position, the message and the
\* public key of the key pair that new or append was called with for that
\* position.
C4_EveryLinkEndorsed ==
  Token_verify(tok) = "true" => AsSigned

\* the stored links are the signed links with positions i and j exchanged
SwappedFromSigned(i, j) ==
  /\ SignedLinks[i] # SignedLinks[j]
  /\ Links(tok) = [SignedLinks EXCEPT ![i] = SignedLinks[j], ![j] = SignedLinks[i]]

\* C5: a token signed as stored, in which the (message, key) pairs of two
\* positions holding different pairs are then exchanged, does not verify.
C5_OrderSensitive ==
  (taint = 0 /\ \E i, j \in 1..Len(hist) : i < j /\ SwappedFromSigned(i, j))
    => Token_verify(tok) = "false"

\* C7: the challenges, keys and messages of a token are equally many and at
\* least one; new yields one of each, append yields the prior sequences
\* with the new message, key and challenge added at the end.
C7_LengthInvariant ==
  /\ LengthsMatch(tok) /\ Len(tok.keys) >= 1
  /\ LengthsMatch(prior) /\ Len(prior.keys) >= 1
  /\ op.name = "new" =>
       /\ tok.messages = <<op.msg>>
       /\ tok.keys = <<KeyPair(op.kp).public>>
       /\ Len(tok.signature.c) = 1
  /\ op.name = "append" =>
       /\ tok.messages = Append(prior.messages, op.msg)
       /\ tok.keys = Append(prior.keys, KeyPair(op.kp).public)
       /\ Len(tok.signature.c) = Len(prior.signature.c) + 1
       /\ SubSeq(tok.signature.c, 1, Len(prior.signature.c)) = prior.signature.c

\* an append to a two-link token
C7_Witness ==
  op.name = "append" /\ Len(prior.keys) = 2 /\ Len(tok.signature.c) = 3

\* per-link values of a token built by new and append
LinkX(i) == KeyPair(hist[i].kp).private
LinkH(i) == ECVRF_hash_to_curve(KeyPair(hist[i].kp).public, hist[i].msg)
LinkK(i) == ECVRF_nonce(LinkX(i), LinkH(i))
LinkC(i) == tok.signature.c[i]
LinkS(i) == ScalarAdd(LinkK(i), ScalarMul(LinkC(i), LinkX(i)))

RECURSIVE ScalarSum(_)
ScalarSum(scalars) ==
  IF scalars = <<>> THEN ScalarZero
  ELSE ScalarAdd(Head(scalars), ScalarSum(Tail(scalars)))

\* C9: in a token of n links built by new and append, s is the sum of the
\* s_i, gamma_agg the sum of -c_i x_i h_i and w the sum of (s_i - s) h_i;
\* the u and v that verify recomputes are (sum k_i) G and sum k_i h_i, and
\* the last challenge is the hash of the last h, the key sum, u and v.
C9_Accumulators ==
  ntamper = 0 =>
    LET n == Len(hist)
        sig == tok.signature
        sumK == ScalarSum([i \in 1..n |-> LinkK(i)])
        sumKH == add_points([i \in 1..n |-> PointMul(LinkK(i), LinkH(i))])
    IN /\ sig.s = ScalarSum([i \in 1..n |-> LinkS(i)])
       /\ sig.gamma_agg =
            add_points([i \in 1..n |->
              PointMul(ScalarMul(ScalarNeg(LinkC(i)), LinkX(i)), LinkH(i))])
       /\ sig.w =
            add_points([i \in 1..n |->
              PointMul(ScalarAdd(LinkS(i), ScalarNeg(sig.s)), LinkH(i))])
       /\ VerifyU(sig, tok.keys) = PointMul(sumK, RISTRETTO_BASEPOINT_POINT)
       /\ VerifyV(sig, tok.keys, tok.messages) = sumKH
       /\ sig.c[n] = ECVRF_hash_points(<<LinkH(n), add_points(tok.keys),
                       PointMul(sumK, RISTRETTO_BASEPOINT_POINT), sumKH>>)

\* a three-link token built by new and two appends with a repeated link
C9_Witness ==
  /\ ntamper = 0
  /\ Len(hist) = 3
  /\ hist[1] = hist[2]
  /\ tok.signature.w # Identity

-----------------------------------------------------------------------------
(* Branching: two appends to the same token.                                *)

\* let other = prior.append(&keypair, &message), after tok = prior.append(..)
Branch(kp, m) ==
  /\ op.name \in {"append", "branch"}
  /\ other' = Token_append(prior, KeyPair(kp), m)
  /\ op' = Op("branch", kp, m)
  /\ UNCHANGED <<tok, prior, hist, taint, ntamper>>

NextBranch ==
  \/ \E kp \in KeyIds, m \in Messages : AppendLink(kp, m)
  \/ \E kp \in KeyIds, m \in Messages : Branch(kp, m)

SpecBranch == Init /\ [][NextBranch]_vars

IsPrefix(a, b) == Len(a) <= Len(b) /\ SubSeq(b, 1, Len(a)) = a

\* t holds the messages, keys and challenges of base, and one more of each
Extends(base, t) ==
  /\ Len(t.keys) = Len(base.keys) + 1
  /\ IsPrefix(base.messages, t.messages)
  /\ IsPrefix(base.keys, t.keys)
  /\ IsPrefix(base.signature.c, t.signature.c)

\* the token that new and append build from the first n signed links
RECURSIVE Built(_)
Built(n) ==
  IF n = 1 THEN Token_new(KeyPair(hist[1].kp), hist[1].msg)
  ELSE Token_append(Built(n - 1), KeyPair(hist[n].kp), hist[n].msg)

\* C8: after two appends to the same token, that token is as it was built
\* and still verifies, and the two results each verify, each extend it by
\* one link, and the first result is what its own append returned.
C8_PersistentBranching ==
  op.name = "branch" =>
    /\ prior = Built(Len(hist) - 1)
    /\ Token_verify(prior) = "true"
    /\ tok = Built(Len(hist))
    /\ Token_verify(tok) = "true"
    /\ Token_verify(other) = "true"
    /\ Extends(prior, tok)
    /\ Extends(prior, other)
    /\ other.messages[Len(other.messages)] = op.msg
    /\ other.keys[Len(other.keys)] = KeyPair(op.kp).public

\* two different three-link tokens appended to the same two-link token
C8_Witness ==
  /\ op.name = "branch"
  /\ Len(prior.keys) = 2
  /\ other # tok
  /\ Token_verify(other) = "true"
  /\ Token_verify(tok) = "true"

-----------------------------------------------------------------------------
(* The library called with arbitrary arguments: any signature value, and    *)
(* key and message sequences of any lengths.                                *)

PublicKeys == {KeyPair(id).public : id \in KeyIds}

SeqsOfLen(S, n) == [1..n -> S]

\* signature values that no new or sign call produced
SampleSignatures ==
  LET x1 == KeyPair(1).private
      P2 == KeyPair(2).public
  IN { [gamma_agg |-> Identity, c |-> <<>>, w |-> Identity, s |-> ScalarZero],
       [gamma_agg |-> RISTRETTO_BASEPOINT_POINT, c |-> <<ScalarOne>>,
        w |-> P2, s |-> ScalarOne],
       [gamma_agg |-> P2, c |-> <<x1, ScalarZero>>,
        w |-> Identity, s |-> x1] }

\* any signature value, with as many keys and messages as it has challenges
InitApi ==
  /\ \E sg \in SampleSignatures :
       \E ks \in SeqsOfLen(PublicKeys, Len(sg.c)),
          ms \in SeqsOfLen(Messages, Len(sg.c)) :
         tok = [messages |-> ms, keys |-> ks, signature |-> sg]
  /\ prior = tok
  /\ other = tok
  /\ hist = <<>>
  /\ taint = 0
  /\ ntamper = 0
  /\ op = Op("init", 0, "")

\* token.append(&keypair, &message) on whatever the token holds
ApiAppend(kp, m) ==
  /\ Len(tok.signature.c) < MaxLen
  /\ tok' = Token_append(tok, KeyPair(kp), m)
  /\ prior' = tok
  /\ op' = Op("append", kp, m)
  /\ UNCHANGED <<other, hist, taint, ntamper>>

\* token.messages.push(message)
PushMessage(m) ==
  /\ ntamper < MaxEdit
  /\ Len(tok.messages) <= MaxLen
  /\ tok' = [tok EXCEPT !.messages = Append(tok.messages, m)]
  /\ ntamper' = ntamper + 1
  /\ op' = Op("push_message", 0, m)
  /\ UNCHANGED <<prior, other, hist, taint>>

\* token.messages.pop()
PopMessage ==
  /\ ntamper < MaxEdit
  /\ tok.messages # <<>>
  /\ tok' = [tok EXCEPT !.messages = SubSeq(tok.messages, 1, Len(tok.messages) - 1)]
  /\ ntamper' = ntamper + 1
  /\ op' = Op("pop_message", 0, "")
  /\ UNCHANGED <<prior, other, hist, taint>>

\* token.keys.push(public key)
PushKey(kp) ==
  /\ ntamper < MaxEdit
  /\ Len(tok.keys) <= MaxLen
  /\ tok' = [tok EXCEPT !.keys = Append(tok.keys, KeyPair(kp).public)]
  /\ ntamper' = ntamper + 1
  /\ op' = Op("push_key", kp, "")
  /\ UNCHANGED <<prior, other, hist, taint>>

\* token.keys.pop()
PopKey ==
  /\ ntamper < MaxEdit
  /\ tok.keys # <<>>
  /\ tok' = [tok EXCEPT !.keys = SubSeq(tok.keys, 1, Len(tok.keys) - 1)]
  /\ ntamper' = ntamper + 1
  /\ op' = Op("pop_key", 0, "")
  /\ UNCHANGED <<prior, other, hist, taint>>

NextApi == \E kp \in KeyIds, m \in Messages : ApiAppend(kp, m)

SpecApi == InitApi /\ [][NextApi]_vars

\* a token built by new and append, and then its keys and messages pushed
\* and popped, so that verify is called with any numbers of keys and messages
NextArgs ==
  \/ \E kp \in KeyIds, m \in Messages : ntamper = 0 /\ ApiAppend(kp, m)
  \/ \E m \in Messages : PushMessage(m)
  \/ PopMessage
  \/ \E kp \in KeyIds : PushKey(kp)
  \/ PopKey

SpecArgs == Init /\ [][NextArgs]_vars

\* C6: when the keys and messages differ in number, or their number is not
\* the number of challenges, verify returns false; it does not panic.
C6_LengthMismatchSafe ==
  ~LengthsMatch(tok) => Token_verify(tok) = "false"

\* no keys at all against one message and one challenge
C6_Witness ==
  /\ tok.keys = <<>>
  /\ Len(tok.messages) = 1
  /\ Len(tok.signature.c) = 1
  /\ Token_verify(tok) = "false"

====
